---- MODULE Spec2Model ----
(***************************************************************************)
(* A model of the request lifecycle of src/server.js: the connection       *)
(* handler that serve() gives to createServer (route lookup, preprocessor  *)
(* fan-out, handler dispatch, exactly-once settlement) and the response    *)
(* sender _send (postprocessor chain, headers, abort handling, streaming   *)
(* loop).  One request is followed from accept to the end of its handler.  *)
(*                                                                         *)
(* Every action is one synchronous run of JavaScript: from the start of a  *)
(* callback (or the resumption after an await) to the next await.  Events  *)
(* of the environment (socket close, timers, the external signal) and the  *)
(* user's hooks run between those segments.                                *)
(***************************************************************************)
EXTENDS Integers, Sequences, FiniteSets, TLC

\* ---------------------------------------------------------------- bounds
MaxRoutes == 2
MaxPre == 2
MaxPost == 2
MaxChunks == 2

\* ---------------------------------------------------------------- values
None == [kind |-> "None"]

\* The request URLs and the route patterns of the model.  URLPattern.test is
\* modelled by Test: a literal pattern matches its own path, "/:x" any path.
URLs == {"/a", "/b"}
Patterns == {"/a", "/b", "/:x"}
Test(pattern, url) == pattern = "/:x" \/ pattern = url

\* new HTTPError(message, { status })
HTTPError(message, status, cause) ==
    [kind |-> "HTTPError", message |-> message, status |-> status, cause |-> cause]

\* The error a preprocessor fails with, named after its place in the list.
HookError(i) == [kind |-> "Error", name |-> "HookError", id |-> i]
AggregateError(errs) == [kind |-> "AggregateError", errors |-> errs]
TypeError(message) == [kind |-> "Error", name |-> "TypeError", message |-> message]
HandlerError == [kind |-> "Error", name |-> "HandlerError"]
UserError == [kind |-> "Error", name |-> "UserError"]

\* Abort reasons of the three sources and of a hook using context.controller.
SocketClosedReason == [kind |-> "String", text |-> "Socket closed"]
TimeoutReason == HTTPError("Connection timed out.", 408, None)
ExternalReason == [kind |-> "Error", name |-> "AbortError"]
UserAbortReason == [kind |-> "Error", name |-> "UserAbort"]

\* Response bodies are sequences of chunks; chunk k of a handler's body is k.
Chunks(n) == [k \in 1..n |-> [data |-> k]]
Response(status, stream, body, location) ==
    [kind |-> "Response", status |-> status, stream |-> stream, body |-> body,
     location |-> location]
HandlerResponse == Response(200, TRUE, Chunks(MaxChunks), FALSE)
PlainObject == [kind |-> "Object", status |-> 201, body |-> <<[data |-> "ok"]>>]
RedirectURL == [kind |-> "URL", href |-> "/b"]
\* Response.redirect(url): status 302, a Location header, no body.
Redirect(url) == Response(302, FALSE, <<>>, TRUE)
\* respondWithFile(resolved): the file's contents with status 200.
FileResponse == Response(200, TRUE, <<[data |-> "file"]>>, FALSE)

\* HTTPError.prototype.response (src/HTTPError.js is not in src/): the
\* error-to-response mapping of the specification, section 6: a response with
\* the error's status whose body carries the error's message.
ErrorResponse(err) ==
    Response(err.status, TRUE, <<[data |-> "error", message |-> err.message]>>, FALSE)

\* ---------------------------------------------------------------- state
VARIABLES
    ROUTES,                 \* the route table: the patterns, in the Map's order
    passedSignal,           \* config.signal: [present, aborted, reason]
    server,                 \* the listener: starting, listening, closed
    serveCall,              \* the call of serve(): [signalAborted, state, reason]
    connected,              \* the listener has accepted a connection
    requestPreprocessors,   \* the number of request preprocessors
    responsePostprocessors, \* the number of response postprocessors
    pc,                     \* the connection handler's position
    request,                \* [url, body]: body says the request streams one
    pattern,                \* index in ROUTES of the matched pattern, 0 if none
    matches,                \* context.matches
    controller,             \* controller.signal (= context.signal): [aborted, reason]
    signal,                 \* the composite signal of lines 194-196
    settled,                \* the flag of line 204
    promise,                \* the promise of line 203: [state, value]
    preStatus,              \* each preprocessor's call: notInvoked, threw, pending, ...
    invoked,                \* index in ROUTES of the invoked handler, 0 if none
    returned,               \* what the invoked handler returned (or threw)
    lookup,                 \* what the static root held: absent, none, file, throws
    socketOpen,             \* the connection's socket has not closed
    timeoutHandle,          \* the body-read timer: none, armed, cleared, fired
    bodyEnded,              \* the request's body has been read to its end
    unhandled,              \* a rejected promise that nothing handles exists
    endListener,            \* incomingMessage's 'end' listener is still attached
    logged,                 \* the values the logger was called with
    respMessage,            \* serverResponse: [headersSent, status, written, ended, destroyed]
    spc,                    \* the sender's position
    sending,                \* the Response the sender is sending
    postStatus,             \* each postprocessor's result: pending, transform, ...
    pipes,                  \* the transforms piped onto the body, innermost first
    body,                   \* the stream the sender reads: [state, queue, locked, pending]
    srcCancel,              \* the reason the body's source was cancelled with
    listener,               \* the sender's abort listener is registered
    releases,               \* the calls of reader.releaseLock()
    read,                   \* the settled read the loop has yet to resume on
    firstCall,              \* history: the first call of context.resolve / reject
    handed                  \* history: what the then / catch callback received

pipeVars == <<pc, request, pattern, matches, preStatus, invoked, returned, lookup>>
srvVars == <<server, serveCall, connected>>
cfgVars == <<ROUTES, passedSignal, requestPreprocessors, responsePostprocessors, srvVars>>
sigVars == <<controller, signal, endListener>>
streamVars == <<body, srcCancel, listener, releases, read, spc>>
sendVars == <<sending, postStatus, pipes>>
setVars == <<settled, promise, firstCall>>
envVars == <<socketOpen, timeoutHandle, bodyEnded, unhandled>>
vars == <<cfgVars, pipeVars, sigVars, streamVars, sendVars, setVars, envVars,
          respMessage, logged, handed>>

\* ------------------------------------------------------- route table
\* Object.entries(routes) in registration order, each pattern string once.
RouteTables ==
    {t \in UNION {[1..n -> Patterns] : n \in 0..MaxRoutes} :
        \A i, j \in DOMAIN t : i # j => t[i] # t[j]}

\* ROUTES.keys().find(pattern => pattern.test(request.url)): the first entry,
\* in the Map's insertion order, whose pattern passes; 0 when none does.
RECURSIVE FindFrom(_, _, _)
FindFrom(table, url, i) ==
    IF i > Len(table) THEN 0
    ELSE IF Test(table[i], url) THEN i
    ELSE FindFrom(table, url, i + 1)

\* A lookup that takes the last matching entry instead.
FindLast(table, url) ==
    LET hits == {i \in 1..Len(table) : Test(table[i], url)}
    IN IF hits = {} THEN 0 ELSE CHOOSE i \in hits : \A j \in hits : j <= i

Find(table, url) == FindFrom(table, url, 1)

\* pattern.exec(request.url): the captures of that pattern on that URL.
Exec(table, i, url) ==
    IF i = 0 THEN None ELSE [kind |-> "Match", pattern |-> table[i], input |-> url]

\* ------------------------------------------------------- settlement
\* resolveRequest / rejectRequest of Promise.withResolvers().
resolveRequest(p, result) ==
    IF p.state = "pending" THEN [state |-> "fulfilled", value |-> result] ELSE p

rejectRequest(p, reason) ==
    IF p.state = "pending" THEN [state |-> "rejected", value |-> reason] ELSE p

\* context.resolve and context.reject on the pair s = [settled, promise].
resolve(s, result) ==
    IF ~ s.settled
    THEN [settled |-> TRUE, promise |-> resolveRequest(s.promise, result)]
    ELSE s

\* A reject without the guard, whose reason replaces the outcome.
rejectOverwrite(s, reason) ==
    [settled |-> TRUE, promise |-> [state |-> "rejected", value |-> reason]]

reject(s, reason) ==
    IF ~ s.settled
    THEN [settled |-> TRUE, promise |-> rejectRequest(s.promise, reason)]
    ELSE s

Settlement == [settled |-> settled, promise |-> promise]

\* The first call of either callback, kept as history.
Called(fn, arg) ==
    IF firstCall = None THEN [kind |-> "Call", fn |-> fn, arg |-> arg] ELSE firstCall

Settle(s, fc) ==
    /\ settled' = s.settled
    /\ promise' = s.promise
    /\ firstCall' = fc

\* ------------------------------------------------------- cancellation
NotAborted == [aborted |-> FALSE, reason |-> None]
Aborted(reason) == [aborted |-> TRUE, reason |-> reason]

\* An AbortSignal firing: the first reason stays.
Fire(sig, reason) == IF sig.aborted THEN sig ELSE Aborted(reason)

\* The released reader's TypeError, which rejects a pending read.
ReleasedError == TypeError("Reader released")

\* The pipe chain honouring its signal (pipeThrough(pipe, { signal }), line 79):
\* the source is cancelled with the signal's reason and the readable end errors.
PipeAbort(b) ==
    IF pipes # <<>> /\ b.state = "readable" THEN [b EXCEPT !.state = "errored"] ELSE b

PipeCancel(b, reason) ==
    IF pipes # <<>> /\ b.state = "readable" /\ srcCancel = None THEN reason ELSE srcCancel

\* body.cancel(reason): cancels the source of a stream that is still readable.
Cancel(b, reason) == IF b.state = "readable" THEN [b EXCEPT !.state = "closed"] ELSE b
CancelReason(b, src, reason) == IF b.state = "readable" /\ src = None THEN reason ELSE src

\* cancel(reason) of lines 107-117.  With the body locked: reader.closed.then
\* registers the body.cancel, then reader.releaseLock() rejects reader.closed of
\* a stream that is still readable (so that body.cancel never runs) and rejects
\* the pending read; on a closed stream the body.cancel runs and does nothing.
\* With the body unlocked: body.cancel(reason).
cancel(b, reason) ==
    IF b.locked
    THEN [b EXCEPT !.locked = FALSE, !.pending = FALSE]
    ELSE Cancel(b, reason)

cancelSource(b, src, reason) ==
    IF b.locked THEN src ELSE CancelReason(b, src, reason)

cancelReleases(b) == IF b.locked THEN releases + 1 ELSE releases

\* controller.abort(reason): context.signal and the composite signal fire; the
\* composite's listener of line 242 removes incomingMessage's listeners; the pipe
\* chain and then the sender's listener of line 120 (once) run.
abort(reason) ==
    IF controller.aborted
    THEN UNCHANGED <<sigVars, streamVars>>
    ELSE LET piped == PipeAbort(body)
             src == PipeCancel(body, reason)
         IN /\ controller' = Aborted(reason)
            /\ signal' = Fire(signal, reason)
            /\ endListener' = (endListener /\ signal.aborted)
            /\ listener' = FALSE
            /\ IF listener
               THEN /\ body' = cancel(piped, reason)
                    /\ srcCancel' = cancelSource(piped, src, reason)
                    /\ releases' = cancelReleases(piped)
                    /\ IF piped.locked /\ piped.pending
                       THEN /\ read' = [kind |-> "rejected",
                                        reason |-> IF piped.state = "errored" THEN reason ELSE ReleasedError]
                            /\ spc' = "readRejected"
                       ELSE UNCHANGED <<read, spc>>
               ELSE /\ body' = piped
                    /\ srcCancel' = src
                    /\ UNCHANGED <<releases, read, spc>>

\* The external signal firing: only the composite signal sees it.
abortPassed(reason) ==
    /\ passedSignal' = [passedSignal EXCEPT !.aborted = TRUE, !.reason = reason]
    /\ signal' = Fire(signal, reason)
    /\ endListener' = (endListener /\ signal.aborted)
    /\ UNCHANGED controller

\* ------------------------------------------------------- the transport
\* respMessage.writable: the response is neither finished nor destroyed and its
\* socket is open.
Writable(m) == socketOpen /\ ~ m.ended /\ ~ m.destroyed

writeHead(m, status) == [m EXCEPT !.headersSent = TRUE, !.status = status, !.heads = @ + 1]

\* respMessage.write(chunk): `late` records that context.signal was aborted.
write(m, chunk) ==
    IF Writable(m)
    THEN [m EXCEPT !.written = Append(@, [kind |-> "chunk", value |-> chunk,
                                          late |-> controller.aborted])]
    ELSE m

end(m) == [m EXCEPT !.ended = TRUE]

destroy(m) == [m EXCEPT !.destroyed = TRUE]

\* Lines 56-67 and 94-104: the 408 head unless a head was sent, the JSON of the
\* abort reason when the transport is writable, and the end of the response.
AbortJSON == [kind |-> "abortJSON", status |-> 408, reason |-> controller.reason]

\* An abort branch that writes its 408 head whatever was sent.
sendAbortAlwaysHead(m) ==
    LET m1 == writeHead(m, 408)
        m2 == IF Writable(m1) THEN [m1 EXCEPT !.written = Append(@, AbortJSON)] ELSE m1
    IN end(m2)

sendAbort(m) ==
    LET m1 == IF ~ m.headersSent THEN writeHead(m, 408) ELSE m
        m2 == IF Writable(m1) THEN [m1 EXCEPT !.written = Append(@, AbortJSON)] ELSE m1
    IN end(m2)

\* _isImmutableResponse (line 10)
IsImmutableResponse(resp) == resp.status > 299 /\ resp.status < 309 /\ resp.location

\* The sender's plain-object branch (lines 146-153): new Response(body, { status }).
NormalizeDroppingStatus(resp) ==
    IF resp.kind = "Object" THEN Response(200, TRUE, resp.body, FALSE) ELSE resp

Normalize(resp) ==
    IF resp.kind = "Object" THEN Response(resp.status, TRUE, resp.body, FALSE) ELSE resp

\* _isTransformStream(result.value) (lines 12-15) on a settled result: a rejected
\* result has no value and a value that is not an object is no stream; of null,
\* whose typeof is 'object', the test reads the property `readable` and throws.
NullError == TypeError("Cannot read properties of null (reading 'readable')")

IsTransformStream(result) ==
    IF result = "null" THEN "throws" ELSE IF result = "transform" THEN "yes" ELSE "no"

\* Lines 74-80: the results of Promise.allSettled keep the postprocessors' order;
\* those that are transform streams are piped onto the body from left to right.
RECURSIVE PipeFrom(_, _)
PipeFrom(results, i) ==
    IF i > Len(results) THEN <<>>
    ELSE IF IsTransformStream(results[i]) = "yes" THEN <<i>> \o PipeFrom(results, i + 1)
    ELSE PipeFrom(results, i + 1)

\* A chain folded from the right: the last transform innermost.
RECURSIVE PipeBack(_, _)
PipeBack(results, i) ==
    IF i < 1 THEN <<>>
    ELSE IF IsTransformStream(results[i]) = "yes" THEN <<i>> \o PipeBack(results, i - 1)
    ELSE PipeBack(results, i - 1)

PipeChainReversed(results) == PipeBack(results, Len(results))

PipeChain(results) == PipeFrom(results, 1)

\* Lines 82-144, up to the first read: the head, the second abort check, and the
\* start of the streaming loop.  chain is the pipe chain and src the source's
\* cancel reason after the chain was built.
Transmit(resp, chain, src) ==
    LET m == IF ~ respMessage.headersSent
             THEN writeHead(respMessage, IF resp.status = 0 THEN 500 ELSE resp.status)
             ELSE respMessage
    IN /\ pipes' = chain
       /\ srcCancel' = src
       /\ read' = None
       /\ IF controller.aborted
          THEN /\ respMessage' = sendAbort(m)
               /\ spc' = "finished"
               /\ UNCHANGED <<body, listener, releases>>
          ELSE IF Writable(m) /\ resp.stream
          THEN /\ respMessage' = m
               /\ body' = [state |-> "readable", queue |-> resp.body,
                           locked |-> TRUE, pending |-> TRUE]
               /\ listener' = TRUE
               /\ releases' = 0
               /\ spc' = "reading"
          ELSE /\ respMessage' = end(m)
               /\ spc' = "finished"
               /\ UNCHANGED <<body, listener, releases>>

\* _send from its entry to its first await (lines 55-80).
send(resp0) ==
    LET resp == Normalize(resp0)
    IN IF controller.aborted
       THEN /\ respMessage' = sendAbort(respMessage)
            /\ spc' = "finished"
            /\ UNCHANGED <<sending, postStatus, pipes, body, srcCancel, listener, releases, read>>
       ELSE /\ sending' = resp
            /\ IF IsImmutableResponse(resp)
               THEN /\ Transmit(resp, <<>>, None)
                    /\ UNCHANGED postStatus
               ELSE /\ postStatus' = [i \in 1..responsePostprocessors |-> "pending"]
                    /\ spc' = "post"
                    /\ UNCHANGED <<respMessage, pipes, body, srcCancel, listener, releases, read>>

\* ------------------------------------------------------- the initial state
NoStream == [state |-> "none", queue |-> <<>>, locked |-> FALSE, pending |-> FALSE]

\* The configurations serve() is started with: every route table without
\* hooks, and one route with every list of preprocessors or of postprocessors
\* (and one of each).  config.signal is given: a server without one behaves as
\* one whose signal never fires.
Configs ==
    {[routes |-> t, pre |-> 0, post |-> 0] : t \in RouteTables}
    \cup {c \in [routes : {<<"/a">>}, pre : 0..MaxPre, post : 0..MaxPost] :
             c.pre = 0 \/ c.post = 0 \/ c.pre + c.post <= 2}

Init ==
    /\ \E c \in Configs :
          /\ ROUTES = c.routes
          /\ requestPreprocessors = c.pre
          /\ responsePostprocessors = c.post
    /\ \E aborted \in BOOLEAN :
          /\ passedSignal = [present |-> TRUE, aborted |-> aborted,
                             reason |-> IF aborted THEN ExternalReason ELSE None]
          /\ serveCall = [signalAborted |-> aborted, state |-> "pending", reason |-> None]
    /\ server = "starting"
    /\ connected = FALSE
    /\ lookup = "unknown"
    /\ pc = "idle"
    /\ request = None
    /\ pattern = 0
    /\ matches = None
    /\ controller = NotAborted
    /\ signal = NotAborted
    /\ settled = FALSE
    /\ promise = [state |-> "pending", value |-> None]
    /\ preStatus = <<>>
    /\ invoked = 0
    /\ returned = None
    /\ socketOpen = TRUE
    /\ timeoutHandle = "none"
    /\ bodyEnded = FALSE
    /\ unhandled = FALSE
    /\ endListener = FALSE
    /\ logged = <<>>
    /\ respMessage = [headersSent |-> FALSE, status |-> 0, heads |-> 0, written |-> <<>>,
                      ended |-> FALSE, destroyed |-> FALSE]
    /\ spc = "none"
    /\ sending = None
    /\ postStatus = <<>>
    /\ pipes = <<>>
    /\ body = NoStream
    /\ srcCancel = None
    /\ listener = FALSE
    /\ releases = 0
    /\ read = None
    /\ firstCall = None
    /\ handed = None

\* ------------------------------------------------------- startup
\* Lines 324-328, the check made when serve() resumes after 'listening': with
\* an aborted signal the listener is closed and the signal's reason thrown.
StartupIgnoringSignal(sig) ==
    [server |-> "listening", state |-> "returned", reason |-> None]

Startup(sig) ==
    IF sig.present /\ sig.aborted
    THEN [server |-> "closed", state |-> "threw", reason |-> sig.reason]
    ELSE [server |-> "listening", state |-> "returned", reason |-> None]

\* Lines 314-334: 'listening' is emitted and serve() resumes in the same turn of
\* the event loop, before any connection is accepted.
Listening ==
    /\ server = "starting"
    /\ server' = Startup(passedSignal).server
    /\ serveCall' = [serveCall EXCEPT !.state = Startup(passedSignal).state,
                                      !.reason = Startup(passedSignal).reason]
    /\ UNCHANGED <<ROUTES, passedSignal, requestPreprocessors, responsePostprocessors,
                   connected, pipeVars, sigVars, streamVars, sendVars, setVars, envVars,
                   respMessage, logged, handed>>

\* The listening socket accepts a connection; requests arrive on it.
Connect ==
    /\ server = "listening"
    /\ ~ connected
    /\ connected' = TRUE
    /\ UNCHANGED <<ROUTES, passedSignal, requestPreprocessors, responsePostprocessors,
                   server, serveCall, pipeVars, sigVars, streamVars, sendVars, setVars,
                   envVars, respMessage, logged, handed>>

\* ------------------------------------------------------- the pipeline
\* new HTTPError(`<${request.url}> not found.`, { status: 404 })
NotFound(url) == HTTPError(<<"<", url, "> not found.">>, 404, None)

\* Lines 193-243: the controller and the composite signal, the request, the route
\* lookup, the timer of a streaming request, the frozen context, the listeners.
Accept(url, streaming) ==
    /\ pc = "idle"
    /\ connected
    /\ request' = [url |-> url, body |-> streaming]
    /\ pattern' = Find(ROUTES, url)
    /\ matches' = Exec(ROUTES, Find(ROUTES, url), url)
    /\ controller' = NotAborted
    /\ signal' = IF passedSignal.present /\ passedSignal.aborted
                 THEN Aborted(passedSignal.reason) ELSE NotAborted
    /\ timeoutHandle' = IF streaming THEN "armed" ELSE "none"
    /\ bodyEnded' = FALSE
    /\ unhandled' = FALSE
    /\ endListener' = streaming
    /\ preStatus' = [i \in 1..requestPreprocessors |-> "notInvoked"]
    /\ pc' = IF requestPreprocessors = 0 THEN "fanout" ELSE "mapping"
    /\ UNCHANGED <<cfgVars, invoked, returned, lookup, streamVars, sendVars, setVars,
                   socketOpen, respMessage, logged, handed>>

\* Line 244, requestPreprocessors.map(plugin => plugin(request, context)): the
\* plugins are called in order; one that throws ends the map and control passes
\* to the catch of line 295, which rejects with what was thrown.
Invoke(i, outcome) ==
    /\ pc = "mapping"
    /\ preStatus[i] = "notInvoked"
    /\ \A j \in 1..(i - 1) : preStatus[j] # "notInvoked"
    /\ preStatus' = [preStatus EXCEPT ![i] = outcome]
    /\ IF outcome = "threw"
       THEN /\ Settle(reject(Settlement, HookError(i)), Called("reject", HookError(i)))
            /\ pc' = "settling"
       ELSE /\ pc' = IF i = requestPreprocessors THEN "fanout" ELSE "mapping"
            /\ UNCHANGED setVars
    /\ UNCHANGED <<cfgVars, request, pattern, matches, invoked, returned, lookup, sigVars,
                   streamVars, sendVars, envVars, respMessage, logged, handed>>

\* The promise a preprocessor returned settles while the pipeline awaits the
\* fan-out (nothing reads a promise that settles after a plugin threw).
PreSettle(i, outcome) ==
    /\ pc = "fanout"
    /\ i \in DOMAIN preStatus
    /\ preStatus[i] = "pending"
    /\ preStatus' = [preStatus EXCEPT ![i] = outcome]
    /\ UNCHANGED <<cfgVars, pc, request, pattern, matches, invoked, returned, lookup,
                   sigVars, streamVars, sendVars, setVars, envVars, respMessage, logged,
                   handed>>

\* Line 245: the reasons of the rejected results, in the order of the list.
RECURSIVE ErrsFrom(_, _)
ErrsFrom(status, i) ==
    IF i > Len(status) THEN <<>>
    ELSE IF status[i] = "rejected" THEN <<HookError(i)>> \o ErrsFrom(status, i + 1)
    ELSE ErrsFrom(status, i + 1)

hookErrs(status) == ErrsFrom(status, 1)

\* Lines 247-255: what the pipeline rejects with after the fan-out, None when it
\* goes on to the route.
FanoutRejection(errs) ==
    IF signal.aborted THEN signal.reason
    ELSE IF Len(errs) = 1 THEN errs[1]
    ELSE IF Len(errs) # 0 THEN AggregateError(errs)
    ELSE IF controller.aborted THEN controller.reason
    ELSE None

\* Lines 256-294, up to the next await: a matched route's function is called, a
\* matched module path is imported, otherwise the static root is looked up.
Dispatch(module, exists) ==
    IF ~ settled /\ pattern # 0
    THEN /\ IF module = "function"
            THEN /\ invoked' = pattern
                 /\ pc' = "handling"
            ELSE /\ invoked' = invoked
                 /\ pc' = "importing"
         /\ UNCHANGED <<lookup, setVars>>
    ELSE IF ~ settled /\ exists
    THEN /\ pc' = "static"
         /\ UNCHANGED <<invoked, lookup, setVars>>
    ELSE IF ~ settled
    THEN /\ Settle(reject(Settlement, NotFound(request.url)),
                   Called("reject", NotFound(request.url)))
         /\ pc' = "settling"
         /\ lookup' = "absent"
         /\ UNCHANGED invoked
    ELSE /\ pc' = "settling"
         /\ UNCHANGED <<invoked, lookup, setVars>>

\* The resumption after await Promise.allSettled(...) (lines 244-294).
FanoutDone(module, exists) ==
    /\ pc = "fanout"
    /\ \A i \in DOMAIN preStatus : preStatus[i] \in {"fulfilled", "rejected"}
    /\ LET rejection == FanoutRejection(hookErrs(preStatus))
       IN IF rejection # None
          THEN /\ Settle(reject(Settlement, rejection), Called("reject", rejection))
               /\ pc' = "settling"
               /\ UNCHANGED <<invoked, lookup>>
          ELSE Dispatch(module, exists)
    /\ UNCHANGED <<cfgVars, request, pattern, matches, preStatus, returned, sigVars,
                   streamVars, sendVars, envVars, respMessage, logged, handed>>

\* Line 260, await import(moduleSpecifier).catch(err => err), and lines 262-270:
\* a module that failed to load, one without a callable default, or the call of
\* its default export.
ImportError == [kind |-> "Error", name |-> "ImportError"]
MissingDefault == HTTPError("There was an error handling the request.", 500, None)

\* Line 265 calls HTTPError without `new`.  src/HTTPError.js is not in src/: a
\* class throws the TypeError of a constructor called as a function, which the
\* catch of line 295 rejects with; a plain function gives the error.
ClassCallError == TypeError("Class constructor HTTPError cannot be invoked without 'new'")
MissingDefaultRejections == {MissingDefault, ClassCallError}

\* A load that rejects as if nothing was found.
LoadRejectionNotFound(module, thrown) == HTTPError("not found.", 404, None)

\* Lines 262-268: what the pipeline rejects with after a failed load.
LoadRejection(module, thrown) == IF module = "error" THEN ImportError ELSE thrown

Imported(module) ==
    /\ pc = "importing"
    /\ IF module \in {"error", "nodefault"}
       THEN /\ \E thrown \in MissingDefaultRejections :
                 Settle(reject(Settlement, LoadRejection(module, thrown)),
                        Called("reject", LoadRejection(module, thrown)))
            /\ pc' = "settling"
            /\ UNCHANGED invoked
       ELSE /\ invoked' = pattern
            /\ pc' = "handling"
            /\ UNCHANGED setVars
    /\ UNCHANGED <<cfgVars, request, pattern, matches, preStatus, returned, lookup,
                   sigVars, streamVars, sendVars, envVars, respMessage, logged, handed>>

\* What a handler may return, or throw (the catch of line 270 makes a thrown
\* value the result).
Undefined == [kind |-> "Undefined"]
HandlerResults == {HandlerResponse, RedirectURL, HandlerError, PlainObject, Undefined}

NoResponse == TypeError("did not return a response.")

\* A classification that resolves with whatever is not an Error.
ClassifyLenient(s, resp) ==
    IF resp.kind = "URL" THEN resolve(s, Redirect(resp))
    ELSE IF resp.kind = "Error" THEN reject(s, resp)
    ELSE resolve(s, resp)

\* Lines 272-280: the settlement a handler's result is classified into.
Classify(s, resp) ==
    IF resp.kind = "Response" THEN resolve(s, resp)
    ELSE IF resp.kind = "URL" THEN resolve(s, Redirect(resp))
    ELSE IF resp.kind = "Error" THEN reject(s, resp)
    ELSE reject(s, NoResponse)

ClassifyCall(resp) ==
    IF resp.kind = "Response" THEN Called("resolve", resp)
    ELSE IF resp.kind = "URL" THEN Called("resolve", Redirect(resp))
    ELSE IF resp.kind = "Error" THEN Called("reject", resp)
    ELSE Called("reject", NoResponse)

\* The resumption after the handler's result settled (lines 270-281).
Handled(resp) ==
    /\ pc = "handling"
    /\ returned' = resp
    /\ Settle(Classify(Settlement, resp), ClassifyCall(resp))
    /\ pc' = "settling"
    /\ UNCHANGED <<cfgVars, request, pattern, matches, preStatus, invoked, lookup,
                   sigVars, streamVars, sendVars, envVars, respMessage, logged, handed>>

\* Lines 283-291: resolveStaticPath gives a file, which respondWithFile answers
\* with, or no file; either call failing reaches the catch of line 295.
StaticError == [kind |-> "Error", name |-> "StaticError"]

StaticDone(resolved) ==
    /\ pc = "static"
    /\ IF resolved = "file"
       THEN Settle(resolve(Settlement, FileResponse), Called("resolve", FileResponse))
       ELSE IF resolved = "none"
       THEN Settle(reject(Settlement, NotFound(request.url)),
                   Called("reject", NotFound(request.url)))
       ELSE Settle(reject(Settlement, StaticError), Called("reject", StaticError))
    /\ pc' = "settling"
    /\ lookup' = resolved
    /\ UNCHANGED <<cfgVars, request, pattern, matches, preStatus, invoked, returned,
                   sigVars, streamVars, sendVars, envVars, respMessage, logged, handed>>

\* Lines 299-311: the then callback sends the fulfilled value; the catch callback
\* logs the rejection and sends the error's response, or a 500 around it.
UnknownError(err) == HTTPError("An unknown error occured", 500, err)

\* A catch that wraps every rejection, an HTTPError too.
ErrorOfUnknown(err) == UnknownError(err)

ErrorOf(err) == IF err.kind = "HTTPError" THEN err ELSE UnknownError(err)

\* Line 303, Promise.try(() => logger(err)): the logger is called at once; when
\* it throws or returns a promise that rejects, the promise Promise.try made
\* rejects, and nothing handles it.
Log(err, fails) ==
    /\ logged' = Append(logged, err)
    /\ unhandled' = (unhandled \/ fails)

Deliver ==
    /\ pc = "settling"
    /\ promise.state # "pending"
    /\ pc' = "sending"
    /\ IF promise.state = "fulfilled"
       THEN /\ handed' = [kind |-> "Call", fn |-> "resolve", arg |-> promise.value]
            /\ send(promise.value)
            /\ UNCHANGED <<logged, unhandled>>
       ELSE /\ handed' = [kind |-> "Call", fn |-> "reject", arg |-> promise.value]
            /\ \E fails \in BOOLEAN : Log(promise.value, fails)
            /\ send(ErrorResponse(ErrorOf(promise.value)))
    /\ UNCHANGED <<cfgVars, request, pattern, matches, preStatus, invoked, returned,
                   lookup, sigVars, setVars, socketOpen, timeoutHandle, bodyEnded>>

\* ------------------------------------------------------- the sender
\* A postprocessor's promise settles: with a transform stream, with null, or
\* ("failed") rejected or with a value that is not an object (Promise.try makes
\* a throw a rejection).
PostSettle(i, result) ==
    /\ spc = "post"
    /\ i \in DOMAIN postStatus
    /\ postStatus[i] = "pending"
    /\ postStatus' = [postStatus EXCEPT ![i] = result]
    /\ UNCHANGED <<cfgVars, pipeVars, sigVars, streamVars, sending, pipes, setVars,
                   envVars, respMessage, logged, handed>>

\* The resumption after await Promise.allSettled(...) of line 74: the chain is
\* built (an aborted signal makes pipeThrough cancel the source at once) and the
\* response is transmitted.
PostDone ==
    /\ spc = "post"
    /\ \A i \in DOMAIN postStatus : postStatus[i] # "pending"
    /\ IF \E i \in DOMAIN postStatus : IsTransformStream(postStatus[i]) = "throws"
       THEN /\ spc' = "threw"
            /\ UNCHANGED <<respMessage, pipes, body, srcCancel, listener, releases, read>>
       ELSE LET chain == PipeChain(postStatus)
            IN Transmit(sending, chain,
                        IF controller.aborted /\ chain # <<>> /\ sending.stream
                        THEN controller.reason ELSE None)
    /\ UNCHANGED <<cfgVars, pipeVars, sigVars, sending, postStatus, setVars, envVars,
                   logged, handed>>

\* _send has thrown (lines 299-311).  Thrown in the then callback, the error
\* reaches the catch callback, which logs it and sends a 500 around it; thrown in
\* the catch callback, it rejects the promise the connection handler awaits and
\* leaves the handler, which nothing catches.
SendFailed ==
    /\ spc = "threw"
    /\ IF pc = "sending" /\ handed.fn = "resolve"
       THEN /\ pc' = "resending"
            /\ \E fails \in BOOLEAN : Log(NullError, fails)
            /\ send(ErrorResponse(UnknownError(NullError)))
       ELSE /\ pc' = "escaped"
            /\ spc' = "none"
            /\ UNCHANGED <<logged, unhandled, respMessage, sending, postStatus, pipes, body,
                           srcCancel, listener, releases, read>>
    /\ UNCHANGED <<cfgVars, request, pattern, matches, preStatus, invoked, returned,
                   lookup, sigVars, setVars, socketOpen, timeoutHandle, bodyEnded, handed>>

SourceError == [kind |-> "Error", name |-> "SourceError"]

\* The pending reader.read() of line 124 settles: with the next chunk as the
\* chain transformed it, with done when the body is exhausted, or rejected when
\* the source fails.
ReadSettle(fails) ==
    /\ spc = "reading"
    /\ body.pending
    /\ IF fails
       THEN /\ read' = [kind |-> "rejected", reason |-> SourceError]
            /\ body' = [body EXCEPT !.state = "errored", !.pending = FALSE]
            /\ spc' = "readRejected"
       ELSE IF body.queue # <<>>
       THEN /\ read' = [kind |-> "chunk", value |-> [data |-> Head(body.queue).data, via |-> pipes]]
            /\ body' = [body EXCEPT !.queue = Tail(@), !.pending = FALSE]
            /\ spc' = "gotChunk"
       ELSE /\ read' = [kind |-> "done"]
            /\ body' = [body EXCEPT !.state = "closed", !.pending = FALSE]
            /\ spc' = "gotDone"
    /\ UNCHANGED <<cfgVars, pipeVars, sigVars, sendVars, setVars, envVars, srcCancel,
                   listener, releases, respMessage, logged, handed>>

\* The loop resumes on a chunk (lines 131-133, then the test of line 123 and the
\* next read).
ResumeChunk ==
    /\ spc = "gotChunk"
    /\ respMessage' = write(respMessage, read.value)
    /\ read' = None
    /\ IF controller.aborted
       THEN /\ spc' = "finished"
            /\ UNCHANGED body
       ELSE /\ spc' = "reading"
            /\ body' = [body EXCEPT !.pending = TRUE]
    /\ UNCHANGED <<cfgVars, pipeVars, sigVars, sendVars, setVars, envVars, srcCancel,
                   listener, releases, logged, handed>>

\* The loop resumes on done (lines 126-130): the reader is released, the
\* response ended and the closed body cancelled as 'Done'.
ResumeDone ==
    /\ spc = "gotDone"
    /\ releases' = releases + 1
    /\ body' = Cancel([body EXCEPT !.locked = FALSE], [kind |-> "String", text |-> "Done"])
    /\ srcCancel' = CancelReason(body, srcCancel, [kind |-> "String", text |-> "Done"])
    /\ respMessage' = end(respMessage)
    /\ read' = None
    /\ spc' = "finished"
    /\ UNCHANGED <<cfgVars, pipeVars, sigVars, sendVars, setVars, envVars, listener,
                   logged, handed>>

\* The read was rejected (lines 138-141): the response is destroyed and
\* cancel(err) runs.
ResumeRejected ==
    /\ spc = "readRejected"
    /\ respMessage' = destroy(respMessage)
    /\ body' = cancel(body, read.reason)
    /\ srcCancel' = cancelSource(body, srcCancel, read.reason)
    /\ releases' = cancelReleases(body)
    /\ read' = None
    /\ spc' = "finished"
    /\ UNCHANGED <<cfgVars, pipeVars, sigVars, sendVars, setVars, envVars, listener,
                   logged, handed>>

\* ------------------------------------------------------- the environment
\* Between the settling of what an await waits for and the resumption after it
\* only microtasks and process.nextTick callbacks run (a hook's continuation, a
\* socket's 'close'): no timer fires and no request data arrives there.
MicrotaskGap ==
    \/ pc = "fanout" /\ \A i \in DOMAIN preStatus : preStatus[i] # "pending"
    \/ pc = "settling"
    \/ spc = "post" /\ \A i \in DOMAIN postStatus : postStatus[i] # "pending"
    \/ spc \in {"gotChunk", "gotDone", "readRejected", "threw"}

\* The handler has returned: the sender it awaited has finished.
Finished == pc \in {"sending", "resending"} /\ spc = "finished"

\* The handler's promise has rejected: an exception has left it.
Escaped == pc = "escaped"

\* The process has terminated on an unhandled rejection.
Crashed == pc = "crashed"

Running == pc \notin {"idle", "mapping"} /\ ~ Finished /\ ~ Escaped /\ ~ Crashed

\* The logger's rejected promise is reported once the microtask queue has
\* drained with the promise still unhandled: the process's default reaction
\* to an unhandled rejection is to terminate (a process that only warns goes
\* on, which is this action not taken).
UnhandledRejection ==
    /\ Running
    /\ ~ MicrotaskGap
    /\ unhandled
    /\ pc' = "crashed"
    /\ UNCHANGED <<cfgVars, request, pattern, matches, preStatus, invoked, returned,
                   lookup, sigVars, streamVars, sendVars, setVars, envVars, respMessage,
                   logged, handed>>

\* incomingMessage.socket's 'close' (line 241): controller.abort('Socket closed').
SocketClose ==
    /\ Running
    /\ socketOpen
    /\ socketOpen' = FALSE
    /\ abort(SocketClosedReason)
    /\ UNCHANGED <<cfgVars, pipeVars, sendVars, setVars, timeoutHandle, bodyEnded,
                   unhandled, respMessage, logged, handed>>

\* The timer of lines 207-210 fires.
Timeout ==
    /\ Running
    /\ ~ MicrotaskGap
    /\ timeoutHandle = "armed"
    /\ timeoutHandle' = "fired"
    /\ abort(TimeoutReason)
    /\ UNCHANGED <<cfgVars, pipeVars, sendVars, setVars, socketOpen, bodyEnded, unhandled,
                   respMessage, logged, handed>>

\* incomingMessage.once('end', () => clearTimeout(timeoutHandle)) (line 212):
\* the timer is cleared if the listener is still attached when 'end' is emitted.
ClearTimeout(handle, listening) ==
    IF listening /\ handle = "armed" THEN "cleared" ELSE handle

\* The request's body ends: incomingMessage emits 'end'.
BodyEnd ==
    /\ Running
    /\ ~ MicrotaskGap
    /\ request.body
    /\ ~ bodyEnded
    /\ bodyEnded' = TRUE
    /\ endListener' = FALSE
    /\ timeoutHandle' = ClearTimeout(timeoutHandle, endListener)
    /\ UNCHANGED <<cfgVars, pipeVars, controller, signal, streamVars, sendVars, setVars,
                   socketOpen, unhandled, respMessage, logged, handed>>

\* The signal given to serve() fires: the listener of line 317 closes the
\* server (one that is not listening yet still comes to listen), and a
\* request's composite signal fires.
ExternalAbort ==
    /\ pc # "mapping"
    /\ ~ Finished
    /\ ~ Escaped
    /\ ~ Crashed
    /\ passedSignal.present
    /\ ~ passedSignal.aborted
    /\ server' = IF server = "listening" THEN "closed" ELSE server
    /\ UNCHANGED <<serveCall, connected>>
    /\ IF pc = "idle"
       THEN /\ passedSignal' = [passedSignal EXCEPT !.aborted = TRUE, !.reason = ExternalReason]
            /\ UNCHANGED sigVars
       ELSE abortPassed(ExternalReason)
    /\ UNCHANGED <<ROUTES, requestPreprocessors, responsePostprocessors, pipeVars,
                   streamVars, sendVars, setVars, envVars, respMessage, logged, handed>>

\* ------------------------------------------------------- the hooks
\* The code of a preprocessor, a handler or a postprocessor holds the context
\* from its call on, and may use context.resolve, context.reject and
\* context.controller at any later time.
HasContext ==
    /\ ~ Finished
    /\ ~ Escaped
    /\ ~ Crashed
    /\ \/ \E i \in DOMAIN preStatus : preStatus[i] # "notInvoked"
       \/ invoked # 0
       \/ postStatus # <<>>

UserResolve(result) ==
    /\ HasContext
    /\ Settle(resolve(Settlement, result), Called("resolve", result))
    /\ UNCHANGED <<cfgVars, pipeVars, sigVars, streamVars, sendVars, envVars, respMessage,
                   logged, handed>>

UserReject(reason) ==
    /\ HasContext
    /\ Settle(reject(Settlement, reason), Called("reject", reason))
    /\ UNCHANGED <<cfgVars, pipeVars, sigVars, streamVars, sendVars, envVars, respMessage,
                   logged, handed>>

UserAbort ==
    /\ HasContext
    /\ abort(UserAbortReason)
    /\ UNCHANGED <<cfgVars, pipeVars, sendVars, setVars, envVars, respMessage, logged,
                   handed>>

\* ------------------------------------------------------- the specification
Next ==
    \/ Listening
    \/ Connect
    \/ \E url \in URLs, streaming \in BOOLEAN : Accept(url, streaming)
    \/ \E i \in 1..requestPreprocessors, outcome \in {"threw", "pending", "fulfilled", "rejected"} : Invoke(i, outcome)
    \/ \E i \in 1..requestPreprocessors, outcome \in {"fulfilled", "rejected"} : PreSettle(i, outcome)
    \/ \E module \in {"function", "path"}, exists \in BOOLEAN : FanoutDone(module, exists)
    \/ \E module \in {"error", "nodefault", "ok"} : Imported(module)
    \/ \E resp \in HandlerResults : Handled(resp)
    \/ \E resolved \in {"file", "none", "throws"} : StaticDone(resolved)
    \/ Deliver
    \/ \E i \in 1..responsePostprocessors, result \in {"transform", "failed", "null"} : PostSettle(i, result)
    \/ PostDone
    \/ SendFailed
    \/ UnhandledRejection
    \/ \E fails \in BOOLEAN : ReadSettle(fails)
    \/ ResumeChunk
    \/ ResumeDone
    \/ ResumeRejected
    \/ SocketClose
    \/ Timeout
    \/ BodyEnd
    \/ ExternalAbort
    \/ \E result \in {PlainObject} : UserResolve(result)
    \/ \E reason \in {UserError} : UserReject(reason)
    \/ UserAbort

Spec == Init /\ [][Next]_vars

\* ------------------------------------------------------- properties
BodyChunks == {k \in DOMAIN respMessage.written : respMessage.written[k].kind = "chunk"}
NeverAborted == ~ signal.aborted /\ ~ controller.aborted
OutcomeOf(call) ==
    [state |-> IF call.fn = "resolve" THEN "fulfilled" ELSE "rejected", value |-> call.arg]

\* C1: settlement is exactly-once.  The outcome is the argument of the first
\* call of context.resolve or context.reject, whoever made it, it stays so
\* through every later call, and it is what the sender is handed.
SettlementExactlyOnce ==
    /\ firstCall = None => ~ settled /\ promise.state = "pending" /\ handed = None
    /\ firstCall # None => settled /\ promise = OutcomeOf(firstCall)
    /\ handed # None => handed = firstCall

\* C1 witness: a hook resolved while the handler ran, the handler then failed
\* (the pipeline's reject came second), and the sender was handed the hook's value.
SettlementRaceWitness ==
    /\ handed # None
    /\ handed.arg = PlainObject
    /\ returned = HandlerError

\* C2: the pattern the request is bound to is the first entry of the table
\* that tests true on the URL, its captures are context.matches, the handler
\* invoked is that entry's, and without a match no handler is invoked.
FirstMatchWins ==
    pc # "idle" =>
        /\ pattern \in 0..Len(ROUTES)
        /\ \A j \in 1..Len(ROUTES) :
              (j < pattern \/ pattern = 0) => ~ Test(ROUTES[j], request.url)
        /\ pattern # 0 =>
              /\ Test(ROUTES[pattern], request.url)
              /\ matches = [kind |-> "Match", pattern |-> ROUTES[pattern], input |-> request.url]
        /\ pattern = 0 => matches = None
        /\ invoked \in {0, pattern}

\* C2 witness: the first of two matching patterns had its handler invoked.
FirstOfTwoMatchesWitness ==
    /\ invoked = 1
    /\ Len(ROUTES) >= 2
    /\ Test(ROUTES[2], request.url)

\* C3 (as claimed): when the head of the response is written after the token
\* (the external signal or the controller) was aborted, on a socket that is
\* still open, it is a 408 head followed by the JSON of the abort reason.
AbortBeforeSendIs408 ==
    [][(/\ signal.aborted
        /\ socketOpen
        /\ ~ respMessage.headersSent
        /\ respMessage'.headersSent)
        => /\ respMessage'.status = 408
           /\ respMessage'.written = <<[kind |-> "abortJSON", status |-> 408,
                                        reason |-> signal.reason]>>]_vars

\* C4 (as claimed): context.signal, which the sender consults, is aborted
\* exactly when the composite signal the pipeline consults is, with its reason.
OneTokenForAllSources ==
    pc # "idle" => controller = signal

\* The failures of the fan-out: the plugins that threw or whose promise rejected.
RECURSIVE FailedFrom(_)
FailedFrom(i) ==
    IF i > Len(preStatus) THEN <<>>
    ELSE IF preStatus[i] \in {"threw", "rejected"} THEN <<HookError(i)>> \o FailedFrom(i + 1)
    ELSE FailedFrom(i + 1)

\* C5 (as claimed): once the pipeline has rejected after K >= 1 preprocessor
\* failures (no abort, no hook having settled first), the rejection is the one
\* error when K = 1 and the AggregateError of all K, in list order, otherwise.
FanoutRejectsWithAllFailures ==
    (/\ pc \in {"settling", "sending"}
     /\ NeverAborted
     /\ FailedFrom(1) # <<>>
     /\ firstCall.arg \notin {PlainObject, UserError})
    => promise = [state |-> "rejected",
                  value |-> IF Len(FailedFrom(1)) = 1 THEN FailedFrom(1)[1]
                            ELSE AggregateError(FailedFrom(1))]

\* C6: every body chunk written went through exactly the transforms the
\* postprocessors returned, in registration order, whatever order they settled
\* in; the chunks are those of the original body, in order.
TransformsInRegistrationOrder ==
    \A k \in BodyChunks :
        LET via == respMessage.written[k].value.via
        IN /\ \A a, b \in DOMAIN via : a < b => via[a] < via[b]
           /\ {via[a] : a \in DOMAIN via} = {i \in DOMAIN postStatus : postStatus[i] = "transform"}
           /\ k <= Len(sending.body)
           /\ respMessage.written[k].value.data = sending.body[k].data

\* C6 witness: a chunk was written through two transforms.
TwoTransformsWitness ==
    \E k \in BodyChunks : Len(respMessage.written[k].value.via) = 2

\* C7: no route matched, the static root held no file for the path, every
\* preprocessor succeeded, no hook settled first and nothing aborted: the head
\* is 404 and the body is the error whose message contains the URL.
IsNotFoundRequest ==
    /\ Finished
    /\ pattern = 0
    /\ lookup \in {"absent", "none"}
    /\ \A i \in DOMAIN preStatus : preStatus[i] = "fulfilled"
    /\ firstCall.arg \notin {PlainObject, UserError}
    /\ NeverAborted

NoChunkAfterAbort ==
    \A k \in BodyChunks : ~ respMessage.written[k].late

\* C10 (as claimed): when the token was aborted while the body was streamed,
\* the finished sender has released the reader exactly once and the source was
\* cancelled with the token's abort reason.
AbortedWhileStreaming ==
    /\ Finished
    /\ controller.aborted
    /\ body.state # "none"

AbortReleasesOnceAndCancels ==
    AbortedWhileStreaming => releases = 1 /\ srcCancel = controller.reason

\* C11: a serve() called with an already-aborted signal never returns: once it
\* has resumed it has closed the listener and thrown the signal's reason; no
\* connection is ever accepted and no request dispatched.
AbortedStartupFails ==
    serveCall.signalAborted =>
        /\ serveCall.state # "returned"
        /\ server # "listening"
        /\ ~ connected
        /\ pc = "idle"
        /\ serveCall.state # "pending" =>
              /\ serveCall = [signalAborted |-> TRUE, state |-> "threw",
                              reason |-> passedSignal.reason]
              /\ server = "closed"

\* C11 witness: such a call has thrown and left the listener closed.
AbortedStartupWitness ==
    /\ serveCall.signalAborted
    /\ serveCall.state = "threw"
    /\ serveCall.reason = ExternalReason
    /\ server = "closed"

\* C12: on every path through the sender the status line and headers are
\* written at most once: headersSent is true exactly when one head was written.
HeadersAtMostOnce ==
    /\ respMessage.heads <= 1
    /\ respMessage.headersSent <=> respMessage.heads = 1
    /\ respMessage.written # <<>> => respMessage.headersSent

\* C12 witness: the abort branch that follows the postprocessors ran after the
\* response's own head was written, and skipped its 408 head.
SecondHeadSkippedWitness ==
    /\ Finished
    /\ respMessage.heads = 1
    /\ respMessage.status = 200
    /\ \E k \in DOMAIN respMessage.written : respMessage.written[k].kind = "abortJSON"

\* C13 (as claimed): every accepted request gets a completed response.  Nothing
\* ends a response after its connection handler has returned, so the response
\* is completed eventually only if no exception leaves the handler and, when
\* the handler has returned with the socket still open, the response was ended
\* or destroyed.
EveryRequestCompleted ==
    /\ ~ Escaped
    /\ (Finished /\ socketOpen) => (respMessage.ended \/ respMessage.destroyed)

\* C14: once a pattern matched, the static root is never looked up, and the
\* outcome is never the file's response or the 404; a target that failed to
\* load or lacks a callable default export rejects the request with an error
\* that maps to status 500, and the head written for it is that 500 (or the
\* 408 of a controller aborted before the send).
LoadFailures == {ImportError} \cup MissingDefaultRejections

PastFanout == pc \in {"importing", "handling", "static", "settling", "sending",
                      "resending", "escaped", "crashed"}

FanoutCompletesFirst ==
    [][/\ PastFanout' =>
             \A i \in DOMAIN preStatus' : preStatus'[i] \in {"fulfilled", "rejected", "threw"}
       /\ (invoked = 0 /\ invoked' # 0) =>
             /\ \A i \in DOMAIN preStatus : preStatus[i] = "fulfilled"
             /\ ~ signal.aborted
             /\ ~ controller.aborted
             /\ ~ settled]_vars

\* C16 (as claimed): no postprocessor result blocks or alters the send.  The
\* send never throws on a result, and the head written for a fulfilled outcome
\* (token not aborted) carries the outcome's status whatever the postprocessors
\* threw, rejected with or returned.
PostprocessorsNeverAlterSend ==
    /\ spc # "threw"
    /\ (respMessage.headersSent /\ ~ controller.aborted /\ handed.fn = "resolve") =>
          respMessage.status = Normalize(handed.arg).status

\* C17: when the handler's result arrives and the context is not settled, the
\* outcome becomes exactly one of: fulfilled with the Response returned;
\* fulfilled with the redirect to the URL returned; rejected with the Error
\* thrown or returned; rejected with the TypeError for any other value.  When
\* the context is settled the outcome stays as it is.
HandlerResultClassified ==
    [][(pc = "handling" /\ pc' # "handling") =>
          /\ settled'
          /\ settled => promise' = promise
          /\ ~ settled =>
                \/ /\ returned'.kind = "Response"
                   /\ promise' = [state |-> "fulfilled", value |-> returned']
                \/ /\ returned'.kind = "URL"
                   /\ promise'.state = "fulfilled"
                   /\ promise'.value.kind = "Response"
                   /\ promise'.value.status = 302
                   /\ promise'.value.location
                \/ /\ returned'.kind = "Error"
                   /\ promise' = [state |-> "rejected", value |-> returned']
                \/ /\ returned'.kind \notin {"Response", "URL", "Error"}
                   /\ promise' = [state |-> "rejected",
                                  value |-> TypeError("did not return a response.")]]_vars

\* C17 witness: a handler returned nothing and the request was answered by the
\* error path with that TypeError.
NoResponseWitness ==
    /\ Finished
    /\ returned = Undefined
    /\ handed = [kind |-> "Call", fn |-> "reject",
                 arg |-> TypeError("did not return a response.")]

\* C18 (as claimed): the timer aborts the controller only for a request with a
\* streaming body whose body has not ended.
TimeoutOnlyWhileBodyUnread ==
    [][(~ controller.aborted /\ controller' = Aborted(TimeoutReason)) =>
          /\ request.body
          /\ ~ bodyEnded]_vars

\* C19 (as claimed): a rejection is logged before any byte of its error
\* response is written, and a logger that throws or rejects does not prevent
\* that response: the process does not end on the logger's failure with the
\* response unfinished.
LoggerNeverBlocks ==
    /\ (handed # None /\ handed.fn = "reject") =>
          /\ logged # <<>>
          /\ logged[1] = handed.arg
    /\ Crashed => (respMessage.ended \/ respMessage.destroyed)

\* C20 (as claimed): the JSON abort body is only ever written on a response
\* whose status line is 408.
AbortBodyOnlyOn408 ==
    \A k \in DOMAIN respMessage.written :
        respMessage.written[k].kind = "abortJSON" => respMessage.status = 408

====
